---- MODULE Spec2Model ----
(***************************************************************************)
(* Model of the CSV email clean-up component (src/src/App.tsx, CSVParser). *)
(*                                                                         *)
(* Strings whose content the code inspects (cells, candidate emails, file  *)
(* names) are sequences of one-character strings.  A row (a JS object with *)
(* string values) is the sequence of its <<key, value>> pairs in key       *)
(* order.  JS null is modelled by NullData (csvData), NoColumn             *)
(* (selectedEmailColumn) and NoError (error).                              *)
(***************************************************************************)
EXTENDS Integers, Sequences, FiniteSets

VARIABLES
    csvData,              \* signal csvData: the parsed rows, or NullData
    headers,              \* signal headers: sequence of column names
    selectedEmailColumn,  \* signal selectedEmailColumn: a column name or NoColumn
    error,                \* signal error
    invalidEmails,        \* signal invalidEmails: rows whose email is invalid
    duplicateRows,        \* signal duplicateRows
    filteredData,         \* signal filteredData: the valid, first-seen rows
    originalFileName,     \* signal originalFileName
    correctedEmails,      \* signal correctedEmails: JSON key -> corrected email
    pending,              \* Papa.parse calls whose callback has not run yet: file -> count
    lastInput,            \* <<>>, or the arguments of the handleEmailCorrection call
                          \* the latest step made
    download,             \* <<>>, or the file the latest step offered for download
    probe,                \* validator harness: the string under test
    verdict               \* validator harness: <<>> or <<validateEmail(probe)>>

vars == <<csvData, headers, selectedEmailColumn, error, invalidEmails, duplicateRows,
          filteredData, originalFileName, correctedEmails, pending, lastInput,
          download, probe, verdict>>

----------------------------------------------------------------------------
(* Bounds *)

MaxLen == 6       \* longest string handed to the validator harness
MaxRows == 3      \* most rows of a table in the classification harness
MaxPending == 2   \* most parses in flight at once

----------------------------------------------------------------------------
(* Strings *)

NullData == <<>>
NoColumn == "null"
NoError == "null"

IsSpace(c) == c \in {" ", "\t", "\n"}

\* [^\s@]
NotSpaceAt(c) == ~IsSpace(c) /\ c # "@"

Lower(c) ==
    CASE c = "A" -> "a"
      [] c = "B" -> "b"
      [] c = "C" -> "c"
      [] OTHER -> c

toLowerCase(s) == [i \in 1..Len(s) |-> Lower(s[i])]

RECURSIVE trimStart(_)
trimStart(s) ==
    IF s # <<>> /\ IsSpace(Head(s)) THEN trimStart(Tail(s)) ELSE s

RECURSIVE trimEnd(_)
trimEnd(s) ==
    IF s # <<>> /\ IsSpace(s[Len(s)]) THEN trimEnd(SubSeq(s, 1, Len(s) - 1)) ELSE s

trim(s) == trimEnd(trimStart(s))

----------------------------------------------------------------------------
(* validateEmail: /^[^\s@]+@[^\s@]+\.[^\s@]+$/ run as an automaton.        *)
(* Positions in the pattern: 0 start, 1 inside the first [^\s@]+, 2 after  *)
(* '@', 3 inside the second [^\s@]+, 4 after the literal dot, 5 inside the *)
(* third [^\s@]+ (accepting at end of input).                              *)

RegexStep(q, c) ==
    CASE q = 0 -> IF NotSpaceAt(c) THEN {1} ELSE {}
      [] q = 1 -> (IF NotSpaceAt(c) THEN {1} ELSE {}) \cup (IF c = "@" THEN {2} ELSE {})
      [] q = 2 -> IF NotSpaceAt(c) THEN {3} ELSE {}
      [] q = 3 -> (IF NotSpaceAt(c) THEN {3} ELSE {}) \cup (IF c = "." THEN {4} ELSE {})
      [] q = 4 -> IF NotSpaceAt(c) THEN {5} ELSE {}
      [] q = 5 -> IF NotSpaceAt(c) THEN {5} ELSE {}

RECURSIVE RegexRun(_, _)
RegexRun(qs, s) ==
    IF s = <<>> THEN qs
    ELSE RegexRun(UNION {RegexStep(q, Head(s)) : q \in qs}, Tail(s))

\* a regex that forgets the part before the literal dot: /^[^\s@]+@[^\s@]*\.[^\s@]+$/
RegexStepNoLabel(q, c) ==
    CASE q = 2 -> (IF NotSpaceAt(c) THEN {3} ELSE {}) \cup (IF c = "." THEN {4} ELSE {})
      [] OTHER -> RegexStep(q, c)

RECURSIVE RegexRunNoLabel(_, _)
RegexRunNoLabel(qs, s) ==
    IF s = <<>> THEN qs
    ELSE RegexRunNoLabel(UNION {RegexStepNoLabel(q, Head(s)) : q \in qs}, Tail(s))

validateEmailNoLabel(email) == 5 \in RegexRunNoLabel({0}, email)

validateEmail(email) == 5 \in RegexRun({0}, email)

----------------------------------------------------------------------------
(* Rows *)

Keys(row) == [i \in 1..Len(row) |-> row[i][1]]

HasKey(row, k) == \E i \in 1..Len(row) : row[i][1] = k

\* row[k]
Get(row, k) == row[CHOOSE i \in 1..Len(row) : row[i][1] = k][2]

\* delete row[k], then row[k] = v: the assigned key loses its place
PutLast(row, k, v) ==
    Append(SelectSeq(row, LAMBDA kv : kv[1] # k), <<k, v>>)

\* { ...row, [k]: v }: an existing key keeps its place, a new key goes last
Put(row, k, v) ==
    IF HasKey(row, k)
    THEN [i \in 1..Len(row) |-> IF row[i][1] = k THEN <<k, v>> ELSE row[i]]
    ELSE Append(row, <<k, v>>)

RECURSIVE Concat(_)
Concat(ss) == IF ss = <<>> THEN <<>> ELSE Head(ss) \o Concat(Tail(ss))

\* JSON.stringify(row) for a row of string values without characters to escape
JSONstringify(row) ==
    <<"{">>
    \o Concat([i \in 1..Len(row) |->
                 (IF i > 1 THEN <<",">> ELSE <<>>)
                 \o <<"\"", row[i][1], "\"", ":", "\"">> \o row[i][2] \o <<"\"">>])
    \o <<"}">>

----------------------------------------------------------------------------
(* processData *)

\* the map without .toLowerCase()
trimmedDataNoLower(data, emailColumn) ==
    [i \in 1..Len(data) |-> Put(data[i], emailColumn, trim(Get(data[i], emailColumn)))]

\* data.map(row => ({...row, [emailColumn]: row[emailColumn].trim().toLowerCase()}))
trimmedData(data, emailColumn) ==
    [i \in 1..Len(data) |->
        Put(data[i], emailColumn, toLowerCase(trim(Get(data[i], emailColumn))))]

IsValidRow(row, emailColumn) == validateEmail(Get(row, emailColumn))

invalidRowsList(data, emailColumn) ==
    SelectSeq(trimmedData(data, emailColumn),
              LAMBDA row : ~IsValidRow(row, emailColumn))

validRows(data, emailColumn) ==
    SelectSeq(trimmedData(data, emailColumn),
              LAMBDA row : IsValidRow(row, emailColumn))

\* validRows.forEach(...): one step per row, carrying emailSet, uniqueRows, duplicates
RECURSIVE forEachRow(_, _, _, _, _)
forEachRow(rows, emailColumn, emailSet, uniqueRows, duplicates) ==
    IF rows = <<>> THEN [uniqueRows |-> uniqueRows, duplicates |-> duplicates]
    ELSE LET row == Head(rows)
             email == Get(row, emailColumn)
         IN IF email \notin emailSet
            THEN forEachRow(Tail(rows), emailColumn, emailSet \cup {email},
                            Append(uniqueRows, row), duplicates)
            ELSE forEachRow(Tail(rows), emailColumn, emailSet,
                            uniqueRows, Append(duplicates, row))

\* setFilteredData(validRows) in place of setFilteredData(uniqueRows)
DeduplicateKeepAll(data, emailColumn) ==
    [uniqueRows |-> validRows(data, emailColumn),
     duplicates |-> forEachRow(validRows(data, emailColumn), emailColumn,
                               {}, <<>>, <<>>).duplicates]

Deduplicate(data, emailColumn) ==
    forEachRow(validRows(data, emailColumn), emailColumn, {}, <<>>, <<>>)

processData ==
    IF csvData = NullData \/ selectedEmailColumn' = NoColumn
    THEN UNCHANGED <<invalidEmails, duplicateRows, filteredData>>
    ELSE /\ invalidEmails' = invalidRowsList(csvData, selectedEmailColumn')
         /\ duplicateRows' = Deduplicate(csvData, selectedEmailColumn').duplicates
         /\ filteredData' = Deduplicate(csvData, selectedEmailColumn').uniqueRows

----------------------------------------------------------------------------
(* handleDownload *)

\* correctedEmails()[JSON.stringify(row)] is truthy
HasCorrection(ledger, row) ==
    /\ JSONstringify(row) \in DOMAIN ledger
    /\ ledger[JSONstringify(row)] # <<>>

\* invalidEmails().forEach(...): the corrected rows pushed onto downloadData
RECURSIVE correctedRows(_, _, _)
correctedRows(invalid, ledger, emailColumn) ==
    IF invalid = <<>> THEN <<>>
    ELSE LET row == Head(invalid)
             rest == correctedRows(Tail(invalid), ledger, emailColumn)
         IN IF HasCorrection(ledger, row)
            THEN <<Put(row, emailColumn, ledger[JSONstringify(row)])>> \o rest
            ELSE rest

downloadData ==
    filteredData \o correctedRows(invalidEmails, correctedEmails, selectedEmailColumn)

FixedSuffix == <<"_", "f", "i", "x", "e", "d", ".", "c", "s", "v">>

\* the "Download Filtered CSV" button is rendered
DownloadButtonShown ==
    \/ Len(invalidEmails) > 0
    \/ Len(duplicateRows) > 0
    \/ csvData # NullData

\* handleDownload does not return early
DownloadProceeds ==
    ~(Len(filteredData) = 0 /\ DOMAIN correctedEmails = {})

----------------------------------------------------------------------------
(* The files the user can pick.  Papa.parse (header: true, skipEmptyLines)  *)
(* is a library: a file is given by what its parse reports.  Reading any    *)
(* file can fail, which Papa.parse reports through the error callback.      *)

Row(name, email) == << <<"name", name>>, <<"email", email>> >>

FileIds == {"a", "b", "bad", "empty"}

File(f) ==
    CASE f = "a" ->
           [name |-> <<"a", ".", "c", "s", "v">>, errors |-> FALSE,
            data |-> << Row(<<"x">>, <<"a", "@", "b", ".", "c">>),
                        Row(<<"y">>, <<" ", "A", "@", "b", ".", "c">>),
                        Row(<<"z">>, <<"a", "b">>) >>]
      [] f = "b" ->
           [name |-> <<"b", ".", "c", "s", "v">>, errors |-> FALSE,
            data |-> << Row(<<"x">>, <<"b", "@", "b", ".", "c">>),
                        Row(<<"z">>, <<"a", "b">>) >>]
      [] f = "bad" ->
           [name |-> <<"c", ".", "t", "x", "t">>, errors |-> TRUE,
            data |-> << Row(<<"x">>, <<"c", "@", "b", ".", "c">>) >>]
      [] f = "empty" ->
           [name |-> <<"e", ".", "c", "s", "v">>, errors |-> FALSE,
            data |-> <<>>]

\* file.name.replace(/\.csv$/, "")
StripCsv(name) ==
    IF Len(name) >= 4 /\ SubSeq(name, Len(name) - 3, Len(name)) = <<".", "c", "s", "v">>
    THEN SubSeq(name, 1, Len(name) - 4)
    ELSE name

\* the strings the user types into a correction box
Candidates ==
    { <<"a", "@", "b", ".", "c">>, <<"a", " ", "b">> }

\* the columns the <select> can offer
ColumnChoices == {"name", "email"}

InFlight ==
    LET RECURSIVE Sum(_)
        Sum(S) == IF S = {} THEN 0
                  ELSE LET f == CHOOSE f \in S : TRUE
                       IN pending[f] + Sum(S \ {f})
    IN Sum(FileIds)

----------------------------------------------------------------------------
(* The component *)

DefaultFileName == <<"f", "i", "l", "t", "e", "r", "e", "d", "_", "d", "a", "t", "a">>

Init ==
    /\ csvData = NullData
    /\ headers = <<>>
    /\ selectedEmailColumn = NoColumn
    /\ error = NoError
    /\ invalidEmails = <<>>
    /\ duplicateRows = <<>>
    /\ filteredData = <<>>
    /\ originalFileName = DefaultFileName
    /\ correctedEmails = <<>>
    /\ pending = [f \in FileIds |-> 0]
    /\ lastInput = <<>>
    /\ download = <<>>
    /\ probe = <<>>
    /\ verdict = <<>>

\* the step is no correction and offers no file
Quiet == lastInput' = <<>> /\ download' = <<>> /\ UNCHANGED <<probe, verdict>>

\* resetState without setFilteredData([])
resetStateKeepsFiltered ==
    /\ csvData' = NullData
    /\ headers' = <<>>
    /\ selectedEmailColumn' = NoColumn
    /\ invalidEmails' = <<>>
    /\ duplicateRows' = <<>>
    /\ UNCHANGED filteredData

resetState ==
    /\ csvData' = NullData
    /\ headers' = <<>>
    /\ selectedEmailColumn' = NoColumn
    /\ invalidEmails' = <<>>
    /\ duplicateRows' = <<>>
    /\ filteredData' = <<>>

\* handleFileChange up to the call of Papa.parse, which reads the file asynchronously
handleFileChange(f) ==
    /\ InFlight < MaxPending
    /\ originalFileName' = StripCsv(File(f).name)
    /\ selectedEmailColumn' = NoColumn
    /\ pending' = [pending EXCEPT ![f] = @ + 1]
    /\ Quiet
    /\ UNCHANGED <<csvData, headers, error, invalidEmails, duplicateRows, filteredData,
                   correctedEmails>>

Finished(f) == pending' = [pending EXCEPT ![f] = @ - 1]

\* complete: results.errors.length > 0
completeWithErrors(f) ==
    /\ pending[f] > 0
    /\ File(f).errors
    /\ error' = "errors"
    /\ resetState
    /\ Finished(f)
    /\ Quiet
    /\ UNCHANGED <<originalFileName, correctedEmails>>

\* complete: no errors, data.length > 0
completeWithRows(f) ==
    /\ pending[f] > 0
    /\ ~File(f).errors
    /\ Len(File(f).data) > 0
    /\ headers' = Keys(File(f).data[1])
    /\ csvData' = File(f).data
    /\ error' = NoError
    /\ Finished(f)
    /\ Quiet
    /\ UNCHANGED <<selectedEmailColumn, invalidEmails, duplicateRows, filteredData,
                   originalFileName, correctedEmails>>

\* complete: no errors, no rows
completeEmpty(f) ==
    /\ pending[f] > 0
    /\ ~File(f).errors
    /\ Len(File(f).data) = 0
    /\ error' = "CSV appears to be empty."
    /\ resetState
    /\ Finished(f)
    /\ Quiet
    /\ UNCHANGED <<originalFileName, correctedEmails>>

\* error: (err) => ...
parseError(f) ==
    /\ pending[f] > 0
    /\ error' = "err.message"
    /\ resetState
    /\ Finished(f)
    /\ Quiet
    /\ UNCHANGED <<originalFileName, correctedEmails>>

\* the column <select>, rendered while headers().length > 0 && !selectedEmailColumn()
selectColumn(column) ==
    /\ Len(headers) > 0 /\ selectedEmailColumn = NoColumn
    /\ \E i \in 1..Len(headers) : headers[i] = column
    /\ selectedEmailColumn' = column
    /\ processData
    /\ Quiet
    /\ UNCHANGED <<csvData, headers, error, originalFileName, correctedEmails, pending>>

storeIfValid(originalRow, newEmail) ==
    IF validateEmail(newEmail)
    THEN correctedEmails' =
           [k \in DOMAIN correctedEmails \cup {JSONstringify(originalRow)} |->
               IF k = JSONstringify(originalRow) THEN newEmail ELSE correctedEmails[k]]
    ELSE UNCHANGED correctedEmails

\* onInput of the correction box rendered for invalidEmails()[i]
handleEmailCorrection(i, newEmail) ==
    /\ i \in 1..Len(invalidEmails)
    /\ lastInput' = <<[originalRow |-> invalidEmails[i], newEmail |-> newEmail]>>
    /\ storeIfValid(invalidEmails[i], newEmail)
    /\ download' = <<>>
    /\ UNCHANGED <<csvData, headers, selectedEmailColumn, error, invalidEmails,
                   duplicateRows, filteredData, originalFileName, pending,
                   probe, verdict>>

handleDownload ==
    /\ DownloadButtonShown
    /\ IF DownloadProceeds
       THEN download' = <<[name |-> originalFileName \o FixedSuffix, data |-> downloadData]>>
       ELSE download' = <<>>
    /\ lastInput' = <<>>
    /\ UNCHANGED <<csvData, headers, selectedEmailColumn, error, invalidEmails,
                   duplicateRows, filteredData, originalFileName, correctedEmails,
                   pending, probe, verdict>>

Next ==
    \/ \E f \in FileIds : handleFileChange(f)
    \/ \E f \in FileIds : completeWithErrors(f)
    \/ \E f \in FileIds : completeWithRows(f)
    \/ \E f \in FileIds : completeEmpty(f)
    \/ \E f \in FileIds : parseError(f)
    \/ \E column \in ColumnChoices : selectColumn(column)
    \/ \E i \in 1..Len(invalidEmails), newEmail \in Candidates :
          handleEmailCorrection(i, newEmail)
    \/ handleDownload

Spec == Init /\ [][Next]_vars

----------------------------------------------------------------------------
(* Classification harness: the component right after a successful load of  *)
(* any table of at most MaxRows rows, then column selection and download.   *)

HarnessRow(email, name) == << <<"email", email>>, <<"name", name>> >>

HarnessEmails ==
    { <<"a", "@", "b", ".", "c">>, <<" ", "A", "@", "b", ".", "c">>,
      <<"b", "@", "b", ".", "c">>, <<"a", "b">> }

HarnessRows == { HarnessRow(e, n) : e \in HarnessEmails, n \in {<<"x">>, <<"y">>} }

Tables == UNION { [1..n -> HarnessRows] : n \in 1..MaxRows }

InitClassify ==
    /\ csvData \in Tables
    /\ headers = Keys(csvData[1])
    /\ selectedEmailColumn = NoColumn
    /\ error = NoError
    /\ invalidEmails = <<>>
    /\ duplicateRows = <<>>
    /\ filteredData = <<>>
    /\ originalFileName = <<"t">>
    /\ correctedEmails = <<>>
    /\ pending = [f \in FileIds |-> 0]
    /\ lastInput = <<>>
    /\ download = <<>>
    /\ probe = <<>>
    /\ verdict = <<>>

NextClassify ==
    \/ \E column \in {"email", "name"} : selectColumn(column)
    \/ handleDownload

SpecClassify == InitClassify /\ [][NextClassify]_vars

----------------------------------------------------------------------------
(* Validator harness: validateEmail applied to every string of at most     *)
(* MaxLen characters over Alphabet.                                         *)

Alphabet == {"a", ".", "@", " "}

Strings == UNION { [1..n -> Alphabet] : n \in 0..MaxLen }

InitValidate ==
    /\ probe \in Strings
    /\ verdict = <<>>
    /\ csvData = NullData
    /\ headers = <<>>
    /\ selectedEmailColumn = NoColumn
    /\ error = NoError
    /\ invalidEmails = <<>>
    /\ duplicateRows = <<>>
    /\ filteredData = <<>>
    /\ originalFileName = DefaultFileName
    /\ correctedEmails = <<>>
    /\ pending = [f \in FileIds |-> 0]
    /\ lastInput = <<>>
    /\ download = <<>>

runValidator ==
    /\ verdict = <<>>
    /\ verdict' = <<validateEmail(probe)>>
    /\ UNCHANGED <<csvData, headers, selectedEmailColumn, error, invalidEmails,
                   duplicateRows, filteredData, originalFileName, correctedEmails,
                   pending, lastInput, download, probe>>

NextValidate == runValidator

SpecValidate == InitValidate /\ [][NextValidate]_vars

----------------------------------------------------------------------------
(* Properties *)

\* the rows of rows at the positions that g sends to group, in order
RECURSIVE Pick(_, _, _, _)
Pick(rows, g, group, i) ==
    IF i > Len(rows) THEN <<>>
    ELSE (IF g[i] = group THEN <<rows[i]>> ELSE <<>>) \o Pick(rows, g, group, i + 1)

NormalizedRows(data, column) ==
    [i \in 1..Len(data) |->
        [j \in 1..Len(data[i]) |->
            IF data[i][j][1] = column
            THEN <<column, toLowerCase(trim(data[i][j][2]))>>
            ELSE data[i][j]]]

Classified == selectedEmailColumn # NoColumn

\* C1: after processData, every input row lies in exactly one of the groups
\* filteredData, invalidEmails and duplicateRows: some assignment of the row
\* positions to the three groups yields exactly the three stored sequences.
C1_Partition ==
    Classified =>
        LET rows == NormalizedRows(csvData, selectedEmailColumn)
        IN /\ Len(filteredData) + Len(invalidEmails) + Len(duplicateRows) = Len(rows)
           /\ \E g \in [1..Len(rows) -> {"valid", "invalid", "duplicate"}] :
                 /\ filteredData = Pick(rows, g, "valid", 1)
                 /\ invalidEmails = Pick(rows, g, "invalid", 1)
                 /\ duplicateRows = Pick(rows, g, "duplicate", 1)

C1_Witness ==
    /\ Classified
    /\ Len(filteredData) > 0 /\ Len(invalidEmails) > 0 /\ Len(duplicateRows) > 0

\* the single pass of the design: rows in input order, a set of emails seen
RECURSIVE SinglePass(_, _, _, _)
SinglePass(rows, column, seen, acc) ==
    IF rows = <<>> THEN acc
    ELSE LET row == Head(rows)
             email == Get(row, column)
         IN IF ~validateEmail(email)
            THEN SinglePass(Tail(rows), column, seen,
                            [acc EXCEPT !.invalid = Append(@, row)])
            ELSE IF email \notin seen
            THEN SinglePass(Tail(rows), column, seen \cup {email},
                            [acc EXCEPT !.valid = Append(@, row)])
            ELSE SinglePass(Tail(rows), column, seen,
                            [acc EXCEPT !.duplicate = Append(@, row)])

\* C5: the three groups equal the result of one pass over the normalized rows in
\* input order: invalid email -> invalid; first row with an email -> valid; every
\* later row with that normalized email -> duplicate; input order kept.
C5_SinglePass ==
    Classified =>
        LET expected == SinglePass(NormalizedRows(csvData, selectedEmailColumn),
                                   selectedEmailColumn, {},
                                   [valid |-> <<>>, invalid |-> <<>>, duplicate |-> <<>>])
        IN /\ filteredData = expected.valid
           /\ invalidEmails = expected.invalid
           /\ duplicateRows = expected.duplicate

\* a duplicate that differs from its valid row in the raw email and in another column
C5_Witness ==
    /\ Classified
    /\ Len(csvData) >= 2
    /\ csvData[1] = HarnessRow(<<"a", "@", "b", ".", "c">>, <<"x">>)
    /\ csvData[2] = HarnessRow(<<" ", "A", "@", "b", ".", "c">>, <<"y">>)
    /\ filteredData = <<csvData[1]>>
    /\ Len(duplicateRows) = 1 /\ Get(duplicateRows[1], "name") = <<"y">>

\* no normalized email of the table is invalid and none repeats
AllValidUnique(data, column) ==
    LET rows == NormalizedRows(data, column)
    IN /\ \A i \in 1..Len(rows) : validateEmail(Get(rows[i], column))
       /\ \A i, j \in 1..Len(rows) :
             i # j => Get(rows[i], column) # Get(rows[j], column)

\* C9: for a table without invalid or repeated emails, the exported table has the
\* same rows in the same order with the same column order, each email value
\* trimmed and lower-cased and every other cell untouched.
C9_RoundTrip ==
    (download # <<>> /\ Classified /\ AllValidUnique(csvData, selectedEmailColumn)) =>
        LET out == download[1].data
        IN /\ Len(out) = Len(csvData)
           /\ \A i \in 1..Len(csvData) :
                 /\ Keys(out[i]) = Keys(csvData[i])
                 /\ \A j \in 1..Len(csvData[i]) :
                       out[i][j][2] =
                          IF csvData[i][j][1] = selectedEmailColumn
                          THEN toLowerCase(trim(csvData[i][j][2]))
                          ELSE csvData[i][j][2]

C9_Witness ==
    /\ download # <<>> /\ Classified
    /\ AllValidUnique(csvData, selectedEmailColumn)
    /\ Len(csvData) >= 2
    /\ download[1].data # csvData

\* regex-free readings of the validator's policy
LocalOk(s, k) ==
    /\ k > 1
    /\ \A i \in 1..(k - 1) : NotSpaceAt(s[i])

DomainChars(s, k) == \A i \in (k + 1)..Len(s) : NotSpaceAt(s[i])

\* the policy as documented: the domain has a dot and a character after its last dot
DescribedValid(s) ==
    \E k \in 1..Len(s) :
        /\ s[k] = "@"
        /\ LocalOk(s, k)
        /\ DomainChars(s, k)
        /\ \E d \in (k + 1)..Len(s) : s[d] = "."
        /\ s[Len(s)] # "."

\* the policy of the pattern: the domain has a dot that is neither its first nor
\* its last character
PatternValid(s) ==
    \E k \in 1..Len(s) :
        /\ s[k] = "@"
        /\ LocalOk(s, k)
        /\ DomainChars(s, k)
        /\ \E d \in (k + 2)..(Len(s) - 1) : s[d] = "."

\* C6 as stated: validateEmail(s) is true exactly when s is a non-empty local part
\* without whitespace or '@', one '@', and a domain without whitespace or '@' that
\* contains a '.' and has at least one character after its final '.'.
C6_AsDescribed == verdict # <<>> => (verdict[1] <=> DescribedValid(probe))

\* C6 amended: validateEmail(s) is true exactly when s is a non-empty local part
\* without whitespace or '@', one '@', and a domain without whitespace or '@' that
\* contains a '.' which is neither the first nor the last character of the domain.
C6_Pattern == verdict # <<>> => (verdict[1] <=> PatternValid(probe))

\* an accepted address whose domain ends in a dot
C6_Witness ==
    /\ verdict = <<TRUE>>
    /\ probe = <<"a", "@", "a", ".", "a", ".">>

BlankSession ==
    /\ csvData = NullData
    /\ headers = <<>>
    /\ selectedEmailColumn = NoColumn
    /\ invalidEmails = <<>>
    /\ duplicateRows = <<>>
    /\ filteredData = <<>>

\* C7: whenever an error is recorded the session holds no table, no header, no
\* selected column and empty groups, and a recorded error is only ever cleared by
\* a load that succeeds (a completion that installs a table).
C7_ErrorLeavesBlank ==
    /\ [](error # NoError => BlankSession)
    /\ [][(error # NoError /\ error' = NoError) =>
            (csvData' # NullData /\ Len(headers') > 0
             /\ \E f \in FileIds : pending[f] = pending'[f] + 1)]_vars

\* a failed load after a session that had classified rows and a correction
C7_Witness ==
    /\ error = "CSV appears to be empty."
    /\ BlankSession
    /\ DOMAIN correctedEmails # {}

\* C2 as stated: the row of the latest correction call is export-eligible exactly
\* when the candidate of that call passes the validator.
C2_LatestCandidateDecides ==
    lastInput # <<>> =>
        (HasCorrection(correctedEmails, lastInput[1].originalRow)
            <=> validateEmail(lastInput[1].newEmail))

\* a parse callback ran in this step
LoadCompleted == \E f \in FileIds : pending'[f] = pending[f] - 1

\* C3 as stated: right after a load completes, the three groups and the ledger
\* are empty.
C3_LoadDiscardsDownstream ==
    [][LoadCompleted =>
         /\ invalidEmails' = <<>>
         /\ duplicateRows' = <<>>
         /\ filteredData' = <<>>
         /\ DOMAIN correctedEmails' = {}]_vars

\* the invalid rows with a resolved ledger entry, their email cell replaced
RECURSIVE ResolvedRows(_, _, _)
ResolvedRows(invalid, ledger, column) ==
    IF invalid = <<>> THEN <<>>
    ELSE LET row == Head(invalid)
             key == JSONstringify(row)
         IN (IF key \in DOMAIN ledger /\ validateEmail(ledger[key])
             THEN << [j \in 1..Len(row) |->
                        IF row[j][1] = column THEN <<column, ledger[key]>> ELSE row[j]] >>
             ELSE <<>>)
            \o ResolvedRows(Tail(invalid), ledger, column)

\* C4 as stated: the exported table is the valid group followed by the resolved
\* invalid rows, each a copy of the row with its email column replaced.
C4_ExportTable ==
    download # <<>> =>
        download[1].data =
            filteredData \o ResolvedRows(invalidEmails, correctedEmails, selectedEmailColumn)

\* the classification of file f under some column, or no classification at all
DerivedFrom(f) ==
    /\ originalFileName = StripCsv(File(f).name)
    /\ csvData = File(f).data
    /\ csvData # NullData
    /\ headers = Keys(csvData[1])
    /\ \/ invalidEmails = <<>> /\ duplicateRows = <<>> /\ filteredData = <<>>
       \/ \E column \in ColumnChoices :
             /\ invalidEmails = invalidRowsList(csvData, column)
             /\ duplicateRows = Deduplicate(csvData, column).duplicates
             /\ filteredData = Deduplicate(csvData, column).uniqueRows

\* C8 as stated: whenever an export can be triggered, the file name, the table,
\* the header and the classification all derive from one and the same file.
C8_ExportFromOneFile ==
    (DownloadButtonShown /\ DownloadProceeds) => \E f \in FileIds : DerivedFrom(f)

\* C10 as stated: no two rows of an exported table carry the same normalized email.
C10_ExportHasNoDuplicates ==
    (download # <<>> /\ Classified) =>
        LET out == NormalizedRows(download[1].data, selectedEmailColumn)
        IN \A i, j \in 1..Len(out) :
              i # j => Get(out[i], selectedEmailColumn) # Get(out[j], selectedEmailColumn)

====
